---- MODULE Spec2Model ----
(***************************************************************************)
(* Model of the image feature extraction and comparison of succotash:     *)
(* LsHash (64-bit locality-sensitive hash), Hue (normalized mean hue) and  *)
(* ImgFeatures (their aggregate), from src/src/analyze/features/.          *)
(*                                                                         *)
(* The extractors and comparators are pure functions.  Init draws one call *)
(* (operation and arguments) from bounded input sets and the action of     *)
(* that operation applies it and stores the result in `out`.               *)
(***************************************************************************)
EXTENDS Integers, Sequences, FiniteSets, TLC

VARIABLES
    op,       \* the operation called
    samples,  \* bytes of the 8x8 grayscale image (grayscale_8x8.as_bytes())
    raster,   \* bytes of the RGB image (original_rgb.as_raw())
    angle,    \* argument of Hue::new
    lhs,      \* left operand of a comparison (self)
    rhs,      \* right operand of a comparison (other)
    out,      \* result of the call; NoValue until the call has run
    dir,      \* analyze: the directory given to run, as the file system
              \* will answer: whether read_dir succeeds, and for every
              \* entry of the stream how it turns out
    cursor,   \* analyze: number of items taken from the stream `entries`
    pc,       \* analyze: where run / try_run stands
    result,   \* analyze: what try_run returned to run
    loaded,   \* analyze: the entries ImgRaw::load was called on, in order
    log       \* analyze: the lines handed to the logger, in order

runVars == <<dir, cursor, pc, result, loaded, log>>

vars == <<op, samples, raster, angle, lhs, rhs, out, runVars>>

NoValue == [kind |-> "NoValue"]

(***************************************************************************)
(* Program constants.                                                      *)
(***************************************************************************)
SampleCount == 64      \* resize_exact(8, 8, ..) of an 8-bit grayscale image
MeanDivisor == 64      \* grayscale_8x8_sum / 64
U8Max == 255           \* u8::MAX
FullTurn == 360        \* period of angle::Deg

(***************************************************************************)
(* Bounds of the model.                                                    *)
(***************************************************************************)
MaxPixels == 2         \* Hue::find is given images of 0..MaxPixels pixels
MaxFeaturePixels == 1  \* ImgFeatures::find is given images of
                       \* 0..MaxFeaturePixels pixels
MaxStripe == 3         \* striped sample patterns have period 2..MaxStripe
                       \* and ramps have slope 1..MaxStripe
MaxEntries == 3        \* directories have 0..MaxEntries entries
MaxFlip == 3           \* fingerprints given to comparisons set bits among
                       \* positions 0..MaxFlip-1 and position 63

(***************************************************************************)
(* u64 values.  TLC's integers are 32 bits wide, so a u64 is kept as four  *)
(* 16-bit limbs, least significant first, and the arithmetic of the code   *)
(* is done limb by limb with carries, modulo 2^64.                         *)
(***************************************************************************)
LimbBits == 16
LimbBase == 65536
Limbs == 4

\* 2^n for n in 0..15
Pow2(n) ==
    <<1, 2, 4, 8, 16, 32, 64, 128, 256, 512, 1024, 2048, 4096, 8192, 16384,
      32768>>[n + 1]

U64Zero == <<0, 0, 0, 0>>

\* bit i (0 = least significant) of the u64 x
U64Bit(x, i) == (x[(i \div LimbBits) + 1] \div Pow2(i % LimbBits)) % 2

\* u64::from(bit) << n for n in 0..63
U64Shl1(bit, n) ==
    [l \in 1..Limbs |->
        IF l = (n \div LimbBits) + 1 THEN bit * Pow2(n % LimbBits) ELSE 0]

\* x + y: the sum modulo 2^64 and the carry out of bit 63 (1 when the
\* addition overflows a u64)
U64Add(x, y) ==
    LET s1 == x[1] + y[1]
        s2 == x[2] + y[2] + (s1 \div LimbBase)
        s3 == x[3] + y[3] + (s2 \div LimbBase)
        s4 == x[4] + y[4] + (s3 \div LimbBase)
    IN  [sum   |-> <<s1 % LimbBase, s2 % LimbBase, s3 % LimbBase,
                     s4 % LimbBase>>,
         carry |-> s4 \div LimbBase]

\* u64::count_ones
RECURSIVE CountOnesBelow(_, _)
CountOnesBelow(x, n) ==
    IF n = 0 THEN 0 ELSE U64Bit(x, n - 1) + CountOnesBelow(x, n - 1)

count_ones(x) == CountOnesBelow(x, 64)

(***************************************************************************)
(* LsHash::find, after the image crate has reduced the picture to the      *)
(* bytes `s` of the 8x8 grayscale image.                                   *)
(***************************************************************************)
\* .fold(0u64, |acc, v| acc + u64::from(*v))
RECURSIVE SumFold(_, _, _)
SumFold(acc, s, i) ==
    IF i > Len(s) THEN acc ELSE SumFold(acc + s[i], s, i + 1)

grayscale_8x8_sum(s) == SumFold(0, s, 1)

\* mutant: the bit is set only above the mean
SampleBitStrict(v, mean) == IF v > mean THEN 1 ELSE 0

\* *v >= mean
SampleBit(v, mean) == IF v >= mean THEN 1 ELSE 0

\* mutant: the bits are positioned from 1 on, so the last shift is by 64
LsHashFoldStep_ShiftFromOne(st, v, mean) ==
    LET bit == SampleBit(v, mean)
        bit_positioned == U64Shl1(bit, (st.counter + 1) % 64)
        added == U64Add(st.acc, bit_positioned)
    IN  [counter |-> (st.counter + 1) % (U8Max + 1),
         acc     |-> added.sum,
         panic   |-> \/ st.panic
                     \/ st.counter + 1 >= 64
                     \/ st.counter + 1 > U8Max
                     \/ added.carry = 1]

\* one step of the second fold: (counter, acc) and sample v to
\* (counter + 1, acc + (u64::from(bit) << counter)); `panic` records an
\* arithmetic overflow (shift amount, u8 counter or u64 sum), which panics
\* in a build with overflow checks and wraps in one without
LsHashFoldStep(st, v, mean) ==
    LET bit == SampleBit(v, mean)
        bit_positioned == U64Shl1(bit, st.counter % 64)
        added == U64Add(st.acc, bit_positioned)
    IN  [counter |-> (st.counter + 1) % (U8Max + 1),
         acc     |-> added.sum,
         panic   |-> \/ st.panic
                     \/ st.counter >= 64
                     \/ st.counter + 1 > U8Max
                     \/ added.carry = 1]

\* .fold((0u8, 0u64), |(counter, acc), v| ..) over the bytes of s from the
\* i-th on; each step's state is computed before the next step is taken
RECURSIVE LsHashFold(_, _, _, _)
LsHashFold(st, s, i, mean) ==
    IF i > Len(s) THEN st
    ELSE LET next == LsHashFoldStep(st, s[i], mean)
         IN  IF next.counter >= 0 THEN LsHashFold(next, s, i + 1, mean)
                                  ELSE next

LsHash_new(lshash) == lshash

LsHash_find(s) ==
    LET sum == grayscale_8x8_sum(s)
        quotient == sum \div MeanDivisor
    IN  IF quotient > U8Max
        THEN [kind |-> "Panic", value |-> U64Zero]
        ELSE LET mean == quotient
                 st == LsHashFold([counter |-> 0, acc |-> U64Zero,
                                   panic |-> FALSE], s, 1, mean)
             IN  IF st.panic
                 THEN [kind |-> "Panic", value |-> st.acc]
                 ELSE [kind |-> "Ok", value |-> LsHash_new(st.acc)]

(***************************************************************************)
(* f64 values.  A finite f64 is kept as the exact fraction num/den with    *)
(* den > 0 (the sums of bytes and their quotients are small, so rounding   *)
(* is left out); NaN is kept apart, as it compares and adds differently.   *)
(***************************************************************************)
NaN == [nan |-> TRUE, num |-> 0, den |-> 1]

F64(n, d) == [nan |-> FALSE, num |-> n, den |-> d]

\* x as f64 / n as f64, for x >= 0 and n >= 0; x is 0 whenever n is 0, and
\* 0.0 / 0.0 is NaN
F64Div(x, n) == IF n = 0 THEN NaN ELSE F64(x, n)

\* f64 ==
F64Eq(x, y) == ~x.nan /\ ~y.nan /\ x.num * y.den = y.num * x.den

\* f64 partial_cmp
F64PartialCmp(x, y) ==
    IF x.nan \/ y.nan THEN "None"
    ELSE IF x.num * y.den < y.num * x.den THEN "Less"
    ELSE IF x.num * y.den > y.num * x.den THEN "Greater"
    ELSE "Equal"

(***************************************************************************)
(* Hue.                                                                    *)
(***************************************************************************)
\* angle::Deg::normalize: the angle modulo a full turn; NaN stays NaN
Hue_new(a) ==
    IF a.nan THEN NaN ELSE F64(a.num % (FullTurn * a.den), a.den)

\* the loop of Hue::find: for i in 0..pixels, over the bytes (0-based i)
RECURSIVE ColorSumLoop(_, _, _, _)
ColorSumLoop(color_rgb, bytes, i, pixels) ==
    IF i >= pixels THEN color_rgb
    ELSE ColorSumLoop(<<color_rgb[1] + bytes[i + 1],
                        color_rgb[2] + bytes[i + 1 + 1],
                        color_rgb[3] + bytes[i + 2 + 1]>>,
                      bytes, i + 1, pixels)

\* the colour Hue::find hands to prisma::Hsv::from_color
MeanColor(bytes) ==
    LET pixels == Len(bytes) \div 3
        color_rgb == ColorSumLoop(<<0, 0, 0>>, bytes, 0, pixels)
    IN  <<F64Div(color_rgb[1], pixels),
          F64Div(color_rgb[2], pixels),
          F64Div(color_rgb[3], pixels)>>

Max3(a, b, c) == IF a >= b /\ a >= c THEN a ELSE IF b >= c THEN b ELSE c
Min3(a, b, c) == IF a <= b /\ a <= c THEN a ELSE IF b <= c THEN b ELSE c

\* prisma::Hsv::from_color(&color_rgb).hue(), in degrees: the hexagonal hue
\* of the colour, 0 for a grey, NaN when a channel is NaN
HsvHue(color_rgb) ==
    IF color_rgb[1].nan \/ color_rgb[2].nan \/ color_rgb[3].nan THEN NaN
    ELSE LET r == color_rgb[1].num * color_rgb[2].den * color_rgb[3].den
             g == color_rgb[2].num * color_rgb[1].den * color_rgb[3].den
             b == color_rgb[3].num * color_rgb[1].den * color_rgb[2].den
             max == Max3(r, g, b)
             chroma == max - Min3(r, g, b)
         IN  IF chroma = 0 THEN F64(0, 1)
             ELSE IF max = r THEN F64(60 * (g - b), chroma)
             ELSE IF max = g THEN F64(60 * (2 * chroma + (b - r)), chroma)
             ELSE F64(60 * (4 * chroma + (r - g)), chroma)

Hue_find(bytes) == Hue_new(HsvHue(MeanColor(bytes)))

\* derived PartialEq and PartialOrd of Hue(f64)
Hue_eq(x, y) == F64Eq(x, y)

Hue_partial_cmp(x, y) == F64PartialCmp(x, y)

(***************************************************************************)
(* Comparison of LsHash values.  A partial_cmp result is "Less", "Equal",  *)
(* "Greater" or "None" (no ordering: the values are incomparable).         *)
(***************************************************************************)
\* derived PartialEq of LsHash(u64)
LsHash_eq(self, other) == self = other

\* mutant: equal bit counts compare Equal
LsHash_partial_cmp_TieEqual(self, other) ==
    LET self_ones == count_ones(self)
        other_ones == count_ones(other)
    IN  IF self_ones < other_ones THEN "Less"
        ELSE IF self_ones > other_ones THEN "Greater"
        ELSE "Equal"

LsHash_partial_cmp(self, other) ==
    LET self_ones == count_ones(self)
        other_ones == count_ones(other)
    IN  IF self_ones < other_ones THEN "Less"
        ELSE IF self_ones > other_ones THEN "Greater"
        ELSE "None"

\* the operators < and >, as the standard library derives them from
\* partial_cmp
lt(cmp) == cmp = "Less"

gt(cmp) == cmp = "Greater"

\* what the program offers on two LsHash values: each operation with the
\* type and the value of its result
LsHashApi(a, b) ==
    <<[name |-> "eq", type |-> "bool", value |-> LsHash_eq(a, b)],
      [name |-> "partial_cmp", type |-> "ordering",
       value |-> LsHash_partial_cmp(a, b)]>>

(***************************************************************************)
(* ImgFeatures: lshash, then hue.                                          *)
(***************************************************************************)
\* derived PartialEq: every field equal
ImgFeatures_eq(self, other) ==
    LsHash_eq(self.lshash, other.lshash) /\ Hue_eq(self.hue, other.hue)

\* mutant: the hue breaks the tie of incomparable hashes
ImgFeatures_partial_cmp_HueOnNone(self, other) ==
    LET cmp == LsHash_partial_cmp(self.lshash, other.lshash)
    IN  IF cmp \in {"Equal", "None"}
        THEN Hue_partial_cmp(self.hue, other.hue) ELSE cmp

\* mutant: the fields are compared hue first
ImgFeatures_partial_cmp_HueFirst(self, other) ==
    LET cmp == Hue_partial_cmp(self.hue, other.hue)
    IN  IF cmp = "Equal"
        THEN LsHash_partial_cmp(self.lshash, other.lshash) ELSE cmp

\* derived PartialOrd: the first field whose comparison is not Equal
\* decides, in declaration order
ImgFeatures_partial_cmp(self, other) ==
    LET cmp == LsHash_partial_cmp(self.lshash, other.lshash)
    IN  IF cmp = "Equal" THEN Hue_partial_cmp(self.hue, other.hue) ELSE cmp

\* ImgFeatures::find on the bytes of the RGB image; `reduced` is what the
\* image crate's grayscale and resize_exact made of it
ImgFeatures_find(bytes, reduced) ==
    LET lshash == LsHash_find(reduced)
    IN  IF lshash.kind = "Ok"
        THEN [kind |-> "Ok",
              value |-> [lshash |-> lshash.value, hue |-> Hue_find(bytes)]]
        ELSE [kind |-> "Panic",
              value |-> [lshash |-> lshash.value, hue |-> NaN]]

(***************************************************************************)
(* Inputs: the 64 bytes the reducer can hand to the hash.                  *)
(***************************************************************************)
SampleLevels == {0, 1, 100, 255}

\* the first k samples are u, the others v
SplitSamples(k, u, v) == [i \in 1..SampleCount |-> IF i <= k THEN u ELSE v]

\* every p-th sample is u, the others v
StripeSamples(p, u, v) ==
    [i \in 1..SampleCount |-> IF (i - 1) % p = 0 THEN u ELSE v]

\* the samples rise from u by d a sample, within a byte
RampSamples(u, d) ==
    [i \in 1..SampleCount |-> (u + d * (i - 1)) % (U8Max + 1)]

\* every sample is v (a uniform image)
UniformSamples(v) == [i \in 1..SampleCount |-> v]

SampleInputs ==
    {SplitSamples(k, u, v) : k \in 0..SampleCount, u \in SampleLevels,
                             v \in SampleLevels}
    \cup {UniformSamples(v) : v \in 0..U8Max}
    \cup {RampSamples(u, d) : u \in SampleLevels, d \in 1..MaxStripe}
    \cup {StripeSamples(p, u, v) : p \in 2..MaxStripe, u \in SampleLevels,
                                   v \in SampleLevels}

\* the RGB images: 0..MaxPixels pixels, three bytes each
ByteLevels == {0, 128, 255}

RECURSIVE BytesOfLen(_)
BytesOfLen(n) ==
    IF n = 0 THEN {<<>>}
    ELSE {Append(s, v) : s \in BytesOfLen(n - 1), v \in ByteLevels}

RasterInputs == UNION {BytesOfLen(3 * n) : n \in 0..MaxPixels}

FeatureRasterInputs == UNION {BytesOfLen(3 * n) : n \in 0..MaxFeaturePixels}

\* what the image crate makes of an image: for an image without pixels the
\* model leaves open whether it hands back a blank 8x8 image or stops
ReducerInputs(bytes) ==
    IF Len(bytes) = 0 THEN {SplitSamples(0, 0, 0)}
    ELSE {SplitSamples(32, 255, 0), StripeSamples(2, 1, 100)}

\* the angles given to Hue::new
AngleInputs ==
    {F64(n, 1) : n \in {-721, -360, -1, 0, 1, 90, 359, 360, 361, 725}}
    \cup {F64(-1, 2), F64(719, 2), F64(721, 2), NaN}

\* the u64 whose set bits are the positions in S
RECURSIVE LimbOfBits(_, _)
LimbOfBits(S, l) ==
    IF S = {} THEN 0
    ELSE LET i == CHOOSE j \in S : TRUE
         IN  (IF i \div LimbBits = l - 1 THEN Pow2(i % LimbBits) ELSE 0)
             + LimbOfBits(S \ {i}, l)

U64OfBits(S) == [l \in 1..Limbs |-> LimbOfBits(S, l)]

\* the fingerprints given to comparisons
LsHashInputs ==
    {LsHash_new(U64OfBits(S)) : S \in SUBSET ((0..(MaxFlip - 1)) \cup {63})}

\* the hues given to comparisons
HueInputs == {Hue_new(a) : a \in {F64(10, 1), F64(5, 1), F64(365, 1), NaN}}

ImgFeaturesInputs ==
    {[lshash |-> l, hue |-> h] : l \in LsHashInputs, h \in HueInputs}

(***************************************************************************)
(* Specification.                                                          *)
(***************************************************************************)
Idle == out.kind = "NoValue"

NoSamples == <<>>
NoRaster == <<>>

InitLsHashFind ==
    /\ op = "LsHash::find"
    /\ samples \in SampleInputs
    /\ raster = NoRaster /\ angle = NoValue /\ lhs = NoValue /\ rhs = NoValue

InitHueNew ==
    /\ op = "Hue::new"
    /\ angle \in AngleInputs
    /\ samples = NoSamples /\ raster = NoRaster
    /\ lhs = NoValue /\ rhs = NoValue

InitHueFind ==
    /\ op = "Hue::find"
    /\ raster \in RasterInputs
    /\ samples = NoSamples /\ angle = NoValue
    /\ lhs = NoValue /\ rhs = NoValue

InitImgFeaturesFind ==
    /\ op = "ImgFeatures::find"
    /\ raster \in FeatureRasterInputs
    /\ samples \in ReducerInputs(raster)
    /\ angle = NoValue /\ lhs = NoValue /\ rhs = NoValue

InitLsHashCompare ==
    /\ op = "LsHash::partial_cmp"
    /\ lhs \in LsHashInputs /\ rhs \in LsHashInputs
    /\ samples = NoSamples /\ raster = NoRaster /\ angle = NoValue

InitImgFeaturesCompare ==
    /\ op = "ImgFeatures::partial_cmp"
    /\ lhs \in ImgFeaturesInputs /\ rhs \in ImgFeaturesInputs
    /\ samples = NoSamples /\ raster = NoRaster /\ angle = NoValue

\* no analyze run is under way
RunIdle ==
    /\ dir = NoValue /\ cursor = 0 /\ pc = "idle" /\ result = "none"
    /\ loaded = <<>> /\ log = <<>>

Init ==
    /\ out = NoValue
    /\ RunIdle
    /\ \/ InitLsHashFind
       \/ InitHueNew
       \/ InitHueFind
       \/ InitImgFeaturesFind
       \/ InitLsHashCompare
       \/ InitImgFeaturesCompare

LsHashFind ==
    /\ Idle
    /\ op = "LsHash::find"
    /\ out' = LsHash_find(samples)
    /\ UNCHANGED <<op, samples, raster, angle, lhs, rhs, runVars>>

HueNew ==
    /\ Idle
    /\ op = "Hue::new"
    /\ out' = [kind |-> "Ok", value |-> Hue_new(angle)]
    /\ UNCHANGED <<op, samples, raster, angle, lhs, rhs, runVars>>

HueFind ==
    /\ Idle
    /\ op = "Hue::find"
    /\ out' = [kind |-> "Ok", value |-> Hue_find(raster),
               color_rgb |-> MeanColor(raster)]
    /\ UNCHANGED <<op, samples, raster, angle, lhs, rhs, runVars>>

\* for an image without pixels the image crate either stops (a panic) or
\* hands back the blank 8x8 image
ImgFeaturesFind ==
    /\ Idle
    /\ op = "ImgFeatures::find"
    /\ \/ out' = ImgFeatures_find(raster, samples)
       \/ /\ Len(raster) = 0
          /\ out' = [kind |-> "Panic", value |-> [lshash |-> U64Zero,
                                                    hue |-> NaN]]
    /\ UNCHANGED <<op, samples, raster, angle, lhs, rhs, runVars>>

LsHashCompare ==
    /\ Idle
    /\ op = "LsHash::partial_cmp"
    /\ out' = [kind |-> "Ok",
               partial_cmp |-> LsHash_partial_cmp(lhs, rhs),
               reverse |-> LsHash_partial_cmp(rhs, lhs),
               eq |-> LsHash_eq(lhs, rhs),
               lt |-> lt(LsHash_partial_cmp(lhs, rhs)),
               gt |-> gt(LsHash_partial_cmp(lhs, rhs)),
               api |-> LsHashApi(lhs, rhs)]
    /\ UNCHANGED <<op, samples, raster, angle, lhs, rhs, runVars>>

ImgFeaturesCompare ==
    /\ Idle
    /\ op = "ImgFeatures::partial_cmp"
    /\ out' = [kind |-> "Ok",
               partial_cmp |-> ImgFeatures_partial_cmp(lhs, rhs),
               reverse |-> ImgFeatures_partial_cmp(rhs, lhs),
               eq |-> ImgFeatures_eq(lhs, rhs),
               lt |-> lt(ImgFeatures_partial_cmp(lhs, rhs)),
               gt |-> gt(ImgFeatures_partial_cmp(lhs, rhs))]
    /\ UNCHANGED <<op, samples, raster, angle, lhs, rhs, runVars>>

Next ==
    \/ LsHashFind
    \/ HueNew
    \/ HueFind
    \/ ImgFeaturesFind
    \/ LsHashCompare
    \/ ImgFeaturesCompare

Spec == Init /\ [][Next]_vars

(***************************************************************************)
(* The analyze subcommand: run and try_run (src/src/analyze/mod.rs).  The  *)
(* function is sequential; it is cut into steps at its await points and at *)
(* its two info! lines.  The file system is the input: read_dir succeeds   *)
(* or fails, and every item of the stream is an entry with a readable      *)
(* image ("image"), an entry whose image does not load ("load_err") or an  *)
(* error of the stream itself ("entry_err").  A loaded image has pixels,   *)
(* so that the extraction of its features returns.                         *)
(***************************************************************************)
EntryOutcomes == {"image", "load_err", "entry_err"}

RECURSIVE EntriesOfLen(_)
EntriesOfLen(n) ==
    IF n = 0 THEN {<<>>}
    ELSE {Append(s, e) : s \in EntriesOfLen(n - 1), e \in EntryOutcomes}

DirInputs ==
    {[readable |-> FALSE, entries |-> <<>>]}
    \cup {[readable |-> TRUE, entries |-> s] :
              s \in UNION {EntriesOfLen(n) : n \in 0..MaxEntries}}

\* a line handed to the logger: its level, what it says and the entry it
\* names (0 for a line about the directory or the run)
Line(level, what, entry) == [level |-> level, what |-> what, entry |-> entry]

InitRun ==
    /\ op = "analyze::run"
    /\ samples = NoSamples /\ raster = NoRaster /\ angle = NoValue
    /\ lhs = NoValue /\ rhs = NoValue /\ out = NoValue
    /\ dir \in DirInputs
    /\ cursor = 0 /\ pc = "read_dir" /\ result = "none"
    /\ loaded = <<>> /\ log = <<>>

\* try_run up to the first entries.next(): fs::read_dir(&dir).await?
ReadDir ==
    /\ pc = "read_dir"
    /\ \/ /\ dir.readable
          /\ log' = log \o <<Line("debug", "loading_dir", 0),
                             Line("debug", "loaded_dir", 0)>>
          /\ pc' = "next"
          /\ UNCHANGED result
       \/ /\ ~dir.readable
          /\ log' = Append(log, Line("debug", "loading_dir", 0))
          /\ result' = "Err"
          /\ pc' = "match"
    /\ UNCHANGED <<op, samples, raster, angle, lhs, rhs, out, dir, cursor,
                   loaded>>

\* while let Some(res) = entries.next().await { let entry = res?; debug!(..)
NextEntry ==
    /\ pc = "next"
    /\ \/ /\ cursor = Len(dir.entries)
          /\ result' = "Ok"
          /\ pc' = "match"
          /\ UNCHANGED <<cursor, log>>
       \/ /\ cursor < Len(dir.entries)
          /\ dir.entries[cursor + 1] = "entry_err"
          /\ cursor' = cursor + 1
          /\ result' = "Err"
          /\ pc' = "match"
          /\ UNCHANGED log
       \/ /\ cursor < Len(dir.entries)
          /\ dir.entries[cursor + 1] # "entry_err"
          /\ cursor' = cursor + 1
          /\ log' = Append(log, Line("debug", "opening", cursor + 1))
          /\ pc' = "load"
          /\ UNCHANGED result
    /\ UNCHANGED <<op, samples, raster, angle, lhs, rhs, out, dir, loaded>>

\* mutant: an image that does not load is skipped and the loop goes on
LoadImage_SkipOnError ==
    /\ pc = "load"
    /\ loaded' = Append(loaded, cursor)
    /\ \/ /\ dir.entries[cursor] = "load_err"
          /\ pc' = "next"
          /\ UNCHANGED <<result, log>>
       \/ /\ dir.entries[cursor] = "image"
          /\ log' = Append(log, Line("debug", "getting", cursor))
          /\ pc' = "info_lshash"
          /\ UNCHANGED result
    /\ UNCHANGED <<op, samples, raster, angle, lhs, rhs, out, dir, cursor>>

\* img::ImgRaw::load(entry.path()).await?; debug!(..); img::Img::from(img_raw)
LoadImage ==
    /\ pc = "load"
    /\ loaded' = Append(loaded, cursor)
    /\ \/ /\ dir.entries[cursor] = "load_err"
          /\ result' = "Err"
          /\ pc' = "match"
          /\ UNCHANGED log
       \/ /\ dir.entries[cursor] = "image"
          /\ log' = Append(log, Line("debug", "getting", cursor))
          /\ pc' = "info_lshash"
          /\ UNCHANGED result
    /\ UNCHANGED <<op, samples, raster, angle, lhs, rhs, out, dir, cursor>>

\* info!("img '{}' has lshash of {}", ..)
InfoLsHash ==
    /\ pc = "info_lshash"
    /\ log' = Append(log, Line("info", "lshash", cursor))
    /\ pc' = "info_hue"
    /\ UNCHANGED <<op, samples, raster, angle, lhs, rhs, out, dir, cursor,
                   result, loaded>>

\* info!("img '{}' has hue of {}", ..), the end of the loop's body
InfoHue ==
    /\ pc = "info_hue"
    /\ log' = Append(log, Line("info", "hue", cursor))
    /\ pc' = "next"
    /\ UNCHANGED <<op, samples, raster, angle, lhs, rhs, out, dir, cursor,
                   result, loaded>>

\* run: match try_run(dir).await { Ok(_) => debug!(..), Err(e) => error!(..) }
\* and the return of run, which has no value to return
RunMatch ==
    /\ pc = "match"
    /\ \/ /\ result = "Ok"
          /\ log' = Append(log, Line("debug", "done", 0))
       \/ /\ result = "Err"
          /\ log' = Append(log, Line("error", "error", 0))
    /\ pc' = "returned"
    /\ UNCHANGED <<op, samples, raster, angle, lhs, rhs, out, dir, cursor,
                   result, loaded>>

NextRun ==
    \/ ReadDir
    \/ NextEntry
    \/ LoadImage
    \/ InfoLsHash
    \/ InfoHue
    \/ RunMatch

SpecRun == InitRun /\ [][NextRun]_vars

(***************************************************************************)
(* Reference definitions used by the properties.                          *)
(***************************************************************************)
Done(o) == op = o /\ ~Idle

RECURSIVE SumOf(_, _)
SumOf(s, n) == IF n = 0 THEN 0 ELSE s[n] + SumOf(s, n - 1)

\* number of set bits
PopCount(x) == Cardinality({i \in 0..63 : U64Bit(x, i) = 1})

\* number of bit positions in which x and y differ: popcount(x XOR y)
HammingDistance(x, y) ==
    Cardinality({i \in 0..63 : U64Bit(x, i) # U64Bit(y, i)})

\* the total order of two hues that are numbers
HueOrder(x, y) ==
    IF x.num * y.den < y.num * x.den THEN "Less"
    ELSE IF x.num * y.den = y.num * x.den THEN "Equal"
    ELSE "Greater"

\* sum of channel c (0 = R, 1 = G, 2 = B) over the n pixels of the image
RECURSIVE ChannelSum(_, _, _)
ChannelSum(bytes, c, n) ==
    IF n = 0 THEN 0
    ELSE bytes[3 * (n - 1) + c + 1] + ChannelSum(bytes, c, n - 1)

(***************************************************************************)
(* C1: for every sequence of 64 reduced samples, LsHash::find returns the  *)
(* 64-bit value whose bit i (scan order, i = 0..63) is 1 exactly when      *)
(* samples[i] >= floor(sum(samples) / 64).                                 *)
(***************************************************************************)
C1_FingerprintBits ==
    Done("LsHash::find") =>
        /\ out.kind = "Ok"
        /\ LET mean == SumOf(samples, 64) \div 64
           IN  \A i \in 0..63 :
                   (U64Bit(out.value, i) = 1) <=> (samples[i + 1] >= mean)

\* a hash with set and clear bits, of samples whose sum is no multiple of
\* 64 and among which one equals the mean
C1_Witness ==
    /\ Done("LsHash::find") /\ out.kind = "Ok"
    /\ \E i, j \in 0..63 : /\ U64Bit(out.value, i) = 1
                           /\ U64Bit(out.value, j) = 0
                           /\ i > 40 /\ j < 20
    /\ SumOf(samples, 64) % 64 # 0
    /\ \E i \in 1..64 : samples[i] = SumOf(samples, 64) \div 64

(***************************************************************************)
(* C2: two fingerprints A and B that are not bit-identical compare Less    *)
(* when popcount(A) < popcount(B), Greater when popcount(A) > popcount(B)  *)
(* and incomparable (None) when the popcounts are equal; in that last case *)
(* A < B, B < A and A == B are all false.                                  *)
(***************************************************************************)
C2_PopcountOrder ==
    (Done("LsHash::partial_cmp") /\ lhs # rhs) =>
        /\ PopCount(lhs) < PopCount(rhs) => out.partial_cmp = "Less"
        /\ PopCount(lhs) > PopCount(rhs) => out.partial_cmp = "Greater"
        /\ PopCount(lhs) = PopCount(rhs) =>
               /\ out.partial_cmp = "None"
               /\ ~out.lt
               /\ out.reverse # "Less"
               /\ ~out.eq

C2_Witness ==
    /\ Done("LsHash::partial_cmp") /\ lhs # rhs
    /\ PopCount(lhs) = PopCount(rhs) /\ PopCount(lhs) = 2
    /\ out.partial_cmp = "None" /\ ~out.lt /\ ~out.gt /\ ~out.eq

(***************************************************************************)
(* C3: two feature vectors whose fingerprints are bit-identical compare as *)
(* their hues do in the total order of the hues.                           *)
(***************************************************************************)
C3_HueBreaksEqualFingerprints ==
    (/\ Done("ImgFeatures::partial_cmp")
     /\ lhs.lshash = rhs.lshash
     /\ ~lhs.hue.nan /\ ~rhs.hue.nan) =>
        out.partial_cmp = HueOrder(lhs.hue, rhs.hue)

(***************************************************************************)
(* C4: the comparator of two fingerprints returns Equal exactly when they  *)
(* are bit-identical, so that it agrees with the equality operator.        *)
(***************************************************************************)
C4_EqualIffIdentical ==
    Done("LsHash::partial_cmp") =>
        /\ (out.partial_cmp = "Equal") <=> (lhs = rhs)
        /\ (out.partial_cmp = "Equal") <=> out.eq

(***************************************************************************)
(* C5: two feature vectors whose fingerprints are incomparable (equal      *)
(* popcount, different bits) are incomparable whatever their hues are.     *)
(***************************************************************************)
C5_IncomparablePropagates ==
    (/\ Done("ImgFeatures::partial_cmp")
     /\ lhs.lshash # rhs.lshash
     /\ PopCount(lhs.lshash) = PopCount(rhs.lshash)) =>
        /\ out.partial_cmp = "None"
        /\ out.reverse = "None"
        /\ ~out.lt /\ ~out.gt /\ ~out.eq

\* popcount 1 on both sides, different bits, hue 10 against hue 5
C5_Witness ==
    /\ Done("ImgFeatures::partial_cmp")
    /\ lhs.lshash # rhs.lshash
    /\ PopCount(lhs.lshash) = 1 /\ PopCount(rhs.lshash) = 1
    /\ ~lhs.hue.nan /\ ~rhs.hue.nan
    /\ HueOrder(lhs.hue, rhs.hue) = "Greater"
    /\ out.partial_cmp = "None"

(***************************************************************************)
(* C6: a feature vector whose fingerprint has the smaller popcount is Less *)
(* (A < B), and the reverse comparison is Greater, whatever the bits and   *)
(* the hues are.                                                           *)
(***************************************************************************)
C6_PopcountDecides ==
    (/\ Done("ImgFeatures::partial_cmp")
     /\ PopCount(lhs.lshash) < PopCount(rhs.lshash)) =>
        /\ out.partial_cmp = "Less"
        /\ out.lt
        /\ out.reverse = "Greater"

\* popcount 2 against popcount 3 with the larger hue on the left
C6_Witness ==
    /\ Done("ImgFeatures::partial_cmp")
    /\ PopCount(lhs.lshash) = 2 /\ PopCount(rhs.lshash) = 3
    /\ ~lhs.hue.nan /\ ~rhs.hue.nan
    /\ HueOrder(lhs.hue, rhs.hue) = "Greater"
    /\ out.lt

(***************************************************************************)
(* C7: for an image of N >= 1 pixels the mean colour that Hue::find hands  *)
(* to the HSV conversion has, in each channel, the sum of that channel's   *)
(* bytes over all pixels divided by N.                                     *)
(***************************************************************************)
C7_MeanColour ==
    (Done("Hue::find") /\ Len(raster) >= 3) =>
        LET n == Len(raster) \div 3
        IN  \A c \in 0..2 :
                /\ ~out.color_rgb[c + 1].nan
                /\ out.color_rgb[c + 1].num * n
                       = ChannelSum(raster, c, n) * out.color_rgb[c + 1].den

(***************************************************************************)
(* C8: hue and feature extraction fail with InvalidInput on an image       *)
(* without pixels, and produce a value for every image with at least one   *)
(* pixel.                                                                  *)
(***************************************************************************)
C8_InvalidInputOnEmpty ==
    (Done("Hue::find") \/ Done("ImgFeatures::find")) =>
        /\ Len(raster) = 0 => out.kind = "InvalidInput"
        /\ Len(raster) > 0 => out.kind = "Ok"

(***************************************************************************)
(* C9: every Hue made by Hue::new or by Hue::find holds a number h with    *)
(* 0 <= h < 360.                                                           *)
(***************************************************************************)
HueInRange(h) == ~h.nan /\ 0 <= h.num /\ h.num < 360 * h.den

C9_HueInRange ==
    /\ (Done("Hue::new") \/ Done("Hue::find")) => HueInRange(out.value)
    /\ (Done("ImgFeatures::find") /\ out.kind = "Ok")
           => HueInRange(out.value.hue)

(***************************************************************************)
(* C10: among the operations the program offers on two fingerprints there  *)
(* is a Hamming distance, other than the comparator, whose result is the   *)
(* integer popcount(A XOR B).                                              *)
(***************************************************************************)
C10_HammingDistanceExposed ==
    Done("LsHash::partial_cmp") =>
        \E k \in DOMAIN out.api :
            /\ out.api[k].name # "partial_cmp"
            /\ out.api[k].type = "integer"
            /\ out.api[k].value = HammingDistance(lhs, rhs)

(***************************************************************************)
(* C11: when all 64 reduced samples are equal, whatever their value in     *)
(* 0..255, the hash has all 64 bits set (0xFFFFFFFFFFFFFFFF).              *)
(***************************************************************************)
U64AllOnes == <<65535, 65535, 65535, 65535>>

C11_UniformAllOnes ==
    (Done("LsHash::find") /\ \A i \in 1..64 : samples[i] = samples[1]) =>
        /\ out.kind = "Ok"
        /\ out.value = U64AllOnes

\* a uniform image of a value that is neither 0 nor 255
C11_Witness ==
    /\ Done("LsHash::find")
    /\ \A i \in 1..64 : samples[i] = 77
    /\ out.kind = "Ok" /\ out.value = U64AllOnes

(***************************************************************************)
(* C12: for every sequence of 64 reduced samples LsHash::find ends without *)
(* overflow or panic: the sum of the samples is at most 64 * 255, the mean *)
(* floor(sum / 64) is in 0..255 (it fits a byte), the shift amounts are    *)
(* 0..63 (the counter ends at 64 with no shift beyond 63) and no addition  *)
(* of a positioned bit overflows 64 bits.                                  *)
(***************************************************************************)
C12_NoOverflowNoPanic ==
    Done("LsHash::find") =>
        LET sum == grayscale_8x8_sum(samples)
            mean == sum \div 64
            last == LsHashFold([counter |-> 0, acc |-> U64Zero,
                                panic |-> FALSE], samples, 1, mean)
        IN  /\ out.kind = "Ok"
            /\ sum <= 64 * 255
            /\ mean \in 0..255
            /\ last.counter = 64
            /\ ~last.panic

\* the largest sum and mean (every sample 255), all 64 bits added
C12_Witness ==
    /\ Done("LsHash::find")
    /\ \A i \in 1..64 : samples[i] = 255
    /\ grayscale_8x8_sum(samples) = 64 * 255
    /\ out.kind = "Ok" /\ out.value = U64AllOnes

(***************************************************************************)
(* C13: run handles the entries one at a time in enumeration order; once   *)
(* reading an entry or loading an image fails, no later entry is loaded    *)
(* and no fingerprint or hue line is logged for a later entry; run still   *)
(* returns, with the error logged once; every entry before the failure has *)
(* its fingerprint line and then its hue line.                             *)
(***************************************************************************)
\* the lines about features, in the order logged
FeatureLines ==
    SelectSeq(log, LAMBDA l : l.what \in {"lshash", "hue"})

ErrorLines == SelectSeq(log, LAMBDA l : l.level = "error")

\* the position of the first item that fails, one past the end if none does
FirstFailure ==
    LET bad == {i \in 1..Len(dir.entries) : dir.entries[i] # "image"}
    IN  IF bad = {} THEN Len(dir.entries) + 1
        ELSE CHOOSE i \in bad : \A j \in bad : i <= j

RunFails == ~dir.readable \/ FirstFailure <= Len(dir.entries)

C13_RunStopsAtFirstFailure ==
    op = "analyze::run" =>
        \* one at a time, in order, fingerprint line then hue line
        /\ \A k \in 1..Len(FeatureLines) :
               /\ FeatureLines[k].entry = (k + 1) \div 2
               /\ FeatureLines[k].what = (IF k % 2 = 1 THEN "lshash" ELSE "hue")
        /\ \A k \in 1..Len(loaded) : loaded[k] = k
        \* nothing is loaded or logged beyond the first failure
        /\ \A k \in 1..Len(loaded) : loaded[k] <= FirstFailure
        /\ \A k \in 1..Len(FeatureLines) :
               FeatureLines[k].entry < FirstFailure
        \* once try_run has returned, every entry before the failure has
        \* its two lines
        /\ pc \in {"match", "returned"} =>
               /\ Len(FeatureLines) = 2 * (FirstFailure - 1)
               /\ (result = "Err") <=> RunFails
        \* run returns, the error logged once and not propagated
        /\ pc = "returned" =>
               Len(ErrorLines) = (IF RunFails THEN 1 ELSE 0)
        /\ pc # "returned" => ENABLED NextRun
        /\ Len(ErrorLines) <= 1

\* a run that has returned after one image and then a failing load, with
\* a third entry never touched
C13_Witness ==
    /\ op = "analyze::run" /\ pc = "returned"
    /\ Len(dir.entries) = 3
    /\ FirstFailure = 2 /\ dir.entries[2] = "load_err"
    /\ Len(FeatureLines) = 2 /\ loaded = <<1, 2>>
    /\ Len(ErrorLines) = 1

====
